---- MODULE Spec2Model ----
(***************************************************************************)
(* darker: main() driving the generator format_edited_parts().             *)
(*                                                                         *)
(* main() and the generator form one thread of control: the generator runs *)
(* only while main() asks it for the next item, and main()'s loop body     *)
(* runs only while the generator is suspended at its yield.  The model is  *)
(* therefore one process whose position is pc.                             *)
(*                                                                         *)
(* The collaborators imported from other modules of the package (git diff, *)
(* isort, Black, the chunk chooser, the AST verifier) are modelled by the  *)
(* set of results they can return, or by an exception.                     *)
(***************************************************************************)
EXTENDS Integers, Sequences, FiniteSets, TLC

\* ------------------------------------------------------------------ bounds
MaxLines == 2          \* longest file, in lines
NumFiles == 2          \* paths git may report as modified

MaxDiffLines == 2      \* longest side of a diff taken on its own

LineTexts == {"x"}        \* the distinct texts a line can have
DiffTexts == {"a", "b"}   \* the same, where a diff is taken on its own
GithubActionsBotId == 41898282   \* the user id of github-actions[bot]
OtherUserId == 1                 \* the user id of somebody else
MaxSuggestions == 15             \* `changes = changes[:15]`

\* The review comments a pull request can hold, by author and body.
Comments ==
  {[login |-> "github-actions[bot]", id |-> GithubActionsBotId, marker |-> TRUE],
   [login |-> "github-actions[bot]", id |-> GithubActionsBotId, marker |-> FALSE],
   [login |-> "alice", id |-> OtherUserId, marker |-> TRUE],
   [login |-> "alice", id |-> OtherUserId, marker |-> FALSE]}

LinterCmdlineLists == {<<>>, <<"flake8", "mypy">>}   \* the values of --lint
Files == 1..NumFiles      \* paths in the repository, in sorted order

\* ------------------------------------------------------------------- text
LinesOver(texts, longest) == UNION {[1..n -> texts] : n \in 0..longest}
AllLines == LinesOver(LineTexts, MaxLines)
DiffLines == LinesOver(DiffTexts, MaxDiffLines)

\* A string: its lines and whether the last line ends with a newline.
\* The empty string has no lines and no newline.
Str(ls, newline) == [lines |-> ls, nl |-> (newline /\ ls # <<>>)]
EmptyStr == Str(<<>>, FALSE)
Contents == {Str(ls, n) : ls \in AllLines, n \in BOOLEAN}

splitlines(content) == content.lines

\* "`result_str` is just `chosen_lines` concatenated with newlines"
joinlines(ls) == Str(ls, TRUE)

Range(s) == {s[i] : i \in 1..Len(s)}

\* ------------------------------------------------------------------ state
VARIABLES
  args,               \* parsed command line: check, diff, isort, lint
  options,            \* parsed command line: src, revision and the Black options
  black_args,         \* the BlackArgs mapping main() builds
  fep_calls,          \* the calls of format_edited_parts, each its positional arguments
  pc,                 \* position of main() / the generator
  changed_files,      \* git_get_modified_files(...)
  status,             \* per path: what became of its reconciliation
  path_in_repo,       \* the file of the current iteration of the outer loop
  rev,                \* the revision's copy of the file, relative to the worktree
  worktree_content,
  edited_content,
  context_lines,
  edited_linenums,
  result_str,
  iterations,         \* iterations of the retry loop started for the current file
  failed_margins,     \* margins at which verification failed for the current file
  yields,             \* per path: how many items the generator yielded for it
  disk,               \* per path: the content modify_file() wrote
  verified,           \* the call of verify_ast_unchanged of the current iteration
  yielded,            \* the item the generator is suspended on
  some_files_changed,
  written,            \* paths modify_file() has written
  posted,             \* paths post_gh_suggestion() has completed for
  linters_run,
  error,              \* the exception that ended the run
  retval,
  \* diff, chunks and choose_lines on their own
  c_pc,               \* "idle", "diff", "choose", "join", "done"
  c_edited,           \* edited_lines
  c_formatted,        \* formatted
  c_nums,             \* edited_linenums
  c_chunks,           \* black_chunks
  c_k,                \* chunks chosen so far
  c_added,            \* the lines chosen for chunk c_k
  c_chosen,           \* chosen_lines so far
  c_result,           \* result_str
  \* post_gh_suggestion() on its own
  p_pc,               \* "idle", "load", "get", "delete", "post", "done", "raised"
  p_mock,             \* mock
  p_server,           \* the review comments of the pull request
  p_data,             \* data, once bound: the comments still to loop over
  p_deleted,          \* the comments a DELETE request was sent for
  p_old,              \* old_content.splitlines()
  p_new,              \* new_lines
  p_opcodes,          \* the opcodes the diff returned
  p_changes,          \* changes
  p_review,           \* review_data as handed to post()
  p_requests,         \* the HTTP methods used so far
  p_error             \* the exception raised, or "none"

mainVars == <<args, options, black_args, fep_calls, pc, changed_files, status,
              path_in_repo, rev, worktree_content, edited_content, context_lines,
              edited_linenums, result_str, iterations, failed_margins, yields,
              disk, verified, yielded, some_files_changed, written, posted,
              linters_run, error, retval>>

chooseVars == <<c_pc, c_edited, c_formatted, c_nums, c_chunks, c_k, c_added,
                c_chosen, c_result>>

postVars == <<p_pc, p_mock, p_server, p_data, p_deleted, p_old, p_new, p_opcodes,
              p_changes, p_review, p_requests, p_error>>

sideVars == <<chooseVars, postVars>>

vars == <<mainVars, sideVars>>

NoVerify == [called |-> FALSE, edited |-> EmptyStr, result |-> EmptyStr,
             margin |-> 0, outcome |-> "none", accepted |-> FALSE]
NoYield == [valid |-> FALSE, src |-> 0, old |-> EmptyStr, new |-> EmptyStr,
            new_lines |-> <<>>]

edited_lines == splitlines(edited_content)
max_context_lines == Len(edited_lines)

\* The values of the options that do not reach the control flow of main() and
\* format_edited_parts(): an option is given or not, and has a value.
OptionValues ==
  [src : {{"a.py"}},
   revision : {"", "HEAD~1"},
   config : {[given |-> FALSE, value |-> ""], [given |-> TRUE, value |-> ""],
             [given |-> TRUE, value |-> "my.cfg"]},
   line_length : {[given |-> FALSE, value |-> 0], [given |-> TRUE, value |-> 0],
                  [given |-> TRUE, value |-> 90]},
   skip_string_normalization : {[given |-> FALSE, value |-> FALSE],
                                [given |-> TRUE, value |-> FALSE],
                                [given |-> TRUE, value |-> TRUE]}]

\* `darker a.py`
NoOptions ==
  [src |-> {"a.py"}, revision |-> "",
   config |-> [given |-> FALSE, value |-> ""],
   line_length |-> [given |-> FALSE, value |-> 0],
   skip_string_normalization |-> [given |-> FALSE, value |-> FALSE]]

EmptyMapping == [k \in {} |-> 0]

MainInit(optionSet) ==
  /\ args \in [check : BOOLEAN, diff : BOOLEAN, isort : BOOLEAN, lint : LinterCmdlineLists]
  /\ options \in optionSet
  /\ black_args = EmptyMapping
  /\ fep_calls = <<>>
  /\ failed_margins = {}
  /\ yields = [f \in Files |-> 0]
  /\ disk = [f \in Files |-> EmptyStr]
  /\ pc = "args"
  /\ changed_files = {}
  /\ status = [f \in Files |-> "absent"]
  /\ path_in_repo = 0
  /\ rev = "same"
  /\ worktree_content = EmptyStr
  /\ edited_content = EmptyStr
  /\ context_lines = 0
  /\ edited_linenums = {}
  /\ result_str = EmptyStr
  /\ iterations = 0
  /\ verified = NoVerify
  /\ yielded = NoYield
  /\ some_files_changed = FALSE
  /\ written = {}
  /\ posted = {}
  /\ linters_run = <<>>
  /\ error = "none"
  /\ retval = -1

\* Nothing is going on in the part modelled on its own.
ChooseIdle ==
  /\ c_pc = "idle"
  /\ c_edited = <<>>
  /\ c_formatted = <<>>
  /\ c_nums = {}
  /\ c_chunks = <<>>
  /\ c_k = 0
  /\ c_added = <<>>
  /\ c_chosen = <<>>
  /\ c_result = EmptyStr

NoReview == [built |-> FALSE, event |-> "none", comments |-> <<>>]

PostIdle ==
  /\ p_pc = "idle"
  /\ p_mock = FALSE
  /\ p_server = {}
  /\ p_data = {}
  /\ p_deleted = {}
  /\ p_old = <<>>
  /\ p_new = <<>>
  /\ p_opcodes = <<>>
  /\ p_changes = <<>>
  /\ p_review = NoReview
  /\ p_requests = {}
  /\ p_error = "none"

SideIdle == ChooseIdle /\ PostIdle

\* The Black options are enumerated in SpecOptions.
Init == MainInit({NoOptions}) /\ SideIdle

\* Variant: the caller catches the exception and goes on with the next file.
Raise_FileScoped(exc) ==
  /\ pc' = "for_file"
  /\ error' = exc

\* An exception nobody catches: main() has no handler around its loop over the
\* generator, so the exception leaves the generator and main().
Raise(exc) ==
  /\ pc' = "aborted"
  /\ error' = exc

\* ---------------------------------------------------------- collaborators

\* apply_isort: a full-file reorderer; returns the content as it was, or its
\* lines in another order, each ended by a newline.
IsReordering(p, ls) ==
  /\ Len(p) = Len(ls)
  /\ \A t \in LineTexts :
       Cardinality({i \in 1..Len(p) : p[i] = t}) = Cardinality({i \in 1..Len(ls) : ls[i] = t})
apply_isort(content) ==
  {content} \cup {joinlines(p) : p \in {q \in AllLines : IsReordering(q, splitlines(content))}}

\* EditedLinenumsDiffer.revision_vs_lines: the lines of `ls` changed since the
\* revision, widened by `context` lines.  Empty when `ls` is the revision's
\* content, every line when the path did not exist at the revision; widening
\* the context never removes a line.
revision_vs_lines(ls, context) ==
  IF rev = "absent" THEN {1..Len(ls)}
  ELSE IF rev = "same" /\ ls = splitlines(worktree_content) THEN {{}}
  ELSE {s \in SUBSET (1..Len(ls)) : context > 0 => edited_linenums \subseteq s}

\* run_black: the reformatted lines.
run_black(content) == AllLines

\* An opcode: its kind and the half-open ranges a[i1:i2] and b[j1:j2].
Opcode(i, p, j, q) ==
  [kind |-> IF p = 0 THEN "insert" ELSE IF q = 0 THEN "delete" ELSE "replace",
   i1 |-> i, i2 |-> i + p, j1 |-> j, j2 |-> j + q]
EqualOpcode(i, j, n) == [kind |-> "equal", i1 |-> i, i2 |-> i + n, j1 |-> j, j2 |-> j + n]

\* The edit scripts for a[i:] and b[j:] after an opcode of kind `last`: the
\* opcodes cover both sequences in order, equal opcodes pair equal lines, and
\* equal opcodes alternate with the others.
RECURSIVE OpcodesFrom(_, _, _, _, _)
OpcodesFrom(a, b, i, j, last) ==
  IF i = Len(a) /\ j = Len(b) THEN {<<>>}
  ELSE
    LET ra == Len(a) - i
        rb == Len(b) - j
        equals == IF last = "equal" THEN {}
                  ELSE {n \in 1..(IF ra < rb THEN ra ELSE rb) :
                          \A d \in 1..n : a[i + d] = b[j + d]}
        changes == IF last = "change" THEN {}
                   ELSE {pq \in (0..ra) \X (0..rb) :
                           /\ pq[1] + pq[2] > 0
                           /\ SubSeq(a, i + 1, i + pq[1]) # SubSeq(b, j + 1, j + pq[2])}
    IN UNION ( {{<<EqualOpcode(i, j, n)>> \o rest :
                   rest \in OpcodesFrom(a, b, i + n, j + n, "equal")} : n \in equals}
               \cup
               {{<<Opcode(i, pq[1], j, pq[2])>> \o rest :
                   rest \in OpcodesFrom(a, b, i + pq[1], j + pq[2], "change")} :
                  pq \in changes} )

\* diff_and_get_opcodes: the opcodes of an edit script from a to b.
diff_and_get_opcodes(a, b) == OpcodesFrom(a, b, 0, 0, "start")

\* opcodes_to_chunks: each opcode with the lines of both its sides.
opcodes_to_chunks(opcodes, a, b) ==
  [k \in 1..Len(opcodes) |->
     [kind |-> opcodes[k].kind,
      i1 |-> opcodes[k].i1, i2 |-> opcodes[k].i2,
      j1 |-> opcodes[k].j1, j2 |-> opcodes[k].j2,
      original |-> SubSeq(a, opcodes[k].i1 + 1, opcodes[k].i2),
      formatted |-> SubSeq(b, opcodes[k].j1 + 1, opcodes[k].j2)]]

\* The line numbers (from 1) a chunk is looked up by in the edited line
\* numbers: its original range, or its insertion point when that is empty.
ChunkLinenums(chunk) ==
  IF chunk.i1 = chunk.i2 THEN {chunk.i1 + 1} ELSE (chunk.i1 + 1)..chunk.i2

\* The lines chosen for one chunk.
ChunkChoice(chunk, edit_linenums) ==
  IF chunk.kind # "equal" /\ ChunkLinenums(chunk) \cap edit_linenums # {}
    THEN chunk.formatted
    ELSE chunk.original

\* choose_lines: the choices for all chunks, in order.
RECURSIVE choose_lines(_, _)
choose_lines(black_chunks, edit_linenums) ==
  IF black_chunks = <<>> THEN <<>>
  ELSE ChunkChoice(Head(black_chunks), edit_linenums)
         \o choose_lines(Tail(black_chunks), edit_linenums)

\* verify_ast_unchanged: raises NotEquivalentError when the two ASTs differ
\* or when either side fails to parse.
VerifyOutcomes == {"equivalent", "mismatch", "parse_error"}
RaisesNotEquivalentError(outcome) == outcome # "equivalent"

\* -------------------------------------------------- format_edited_parts

\* `for context_lines in range(max_context_lines + 1)`
MarginRange(max) == 0..max

\* Variant: the bound is compared one too far.
GiveUp_OffByOne(margin, max) == margin = max + 1

\* `if context_lines == max_context_lines: raise`
GiveUp(margin, max) == margin = max

\* Variant: the margin is widened by two.
NextMargin_Skip(margin) == margin + 2

\* The next value of the range after `continue`.
NextMargin(margin) == margin + 1

\* Variant: the test on the edited line numbers is inverted.
NoChangesAfterIsort_Inverted(enable_isort, linenums, edited, worktree) ==
  enable_isort /\ linenums # {} /\ edited = worktree

\* `enable_isort and not edited_linenums and edited_content == worktree_content`
NoChangesAfterIsort(enable_isort, linenums, edited, worktree) ==
  enable_isort /\ linenums = {} /\ edited = worktree

\* Variant: the result is compared with the content given to Black.
ShouldYield_VsEdited(result, worktree) == result # edited_content

\* `if result_str != worktree_content: yield ...`
ShouldYield(result, worktree) == result # worktree

\* Variant: the exception is swallowed and the else branch is taken.
TryVerify_Swallow(raised, margin, max) ==
  IF raised /\ GiveUp(margin, max) THEN "raise" ELSE "else"

\* Variant: the exception is never re-raised, the loop just goes on.
TryVerify_NoReraise(raised, margin, max) ==
  IF ~raised THEN "else" ELSE "continue"

\* Variant: the exception is re-raised at once, no wider margin is tried.
TryVerify_NoRetry(raised, margin, max) ==
  IF ~raised THEN "else" ELSE "raise"

\* try / except NotEquivalentError / else around verify_ast_unchanged
TryVerify(raised, margin, max) ==
  IF ~raised THEN "else"
  ELSE IF GiveUp(margin, max) THEN "raise"
  ELSE "continue"

\* Variant: the calls sit inside the try statement and a failure is retried.
CollaboratorFailure_Retried(exc) ==
  /\ pc' = "diff"
  /\ error' = exc
  /\ context_lines' = context_lines + 1
  /\ UNCHANGED status

\* revision_vs_lines and run_black are called outside the try statement: what
\* they raise is not caught in the retry loop.
CollaboratorFailure(exc) ==
  /\ Raise(exc)
  /\ status' = [status EXCEPT ![path_in_repo] = "failed"]
  /\ UNCHANGED context_lines

\* `if args.config:`, `if args.line_length:`, and
\* `if args.skip_string_normalization is not None:`
HasBlackArg(opts, key) ==
  CASE key = "config" -> opts.config.given /\ opts.config.value # ""
    [] key = "line_length" -> opts.line_length.given /\ opts.line_length.value # 0
    [] OTHER -> opts.skip_string_normalization.given

BlackArgKeys == {"config", "line_length", "skip_string_normalization"}

\* `black_args = BlackArgs()` and the three assignments
BlackArgs(opts) ==
  [key \in {k \in BlackArgKeys : HasBlackArg(opts, k)} |-> opts[key].value]

\* Variant: the reformatted lines are passed for both sides of the chunks.
BlackChunks_FormattedTwice(opcodes, original, formatted) ==
  [k \in 1..Len(opcodes) |->
     [opcodes_to_chunks(opcodes, original, formatted)[k] EXCEPT
        !.original = SubSeq(formatted, opcodes[k].j1 + 1, opcodes[k].j2)]]

\* `black_chunks = list(opcodes_to_chunks(opcodes, edited_lines, formatted))`
BlackChunks(opcodes, original, formatted) ==
  opcodes_to_chunks(opcodes, original, formatted)

\* Steps 5 to 7 for one Black result: the chosen lines, for every edit script
\* the diff may return.
ChosenLines(original, formatted, linenums) ==
  {choose_lines(BlackChunks(opcodes, original, formatted), linenums) :
     opcodes \in diff_and_get_opcodes(original, formatted)}

\* main() up to the call of format_edited_parts(): the Black arguments.
BuildBlackArgs ==
  /\ pc = "args"
  /\ UNCHANGED sideVars
  /\ black_args' = BlackArgs(options)
  /\ pc' = "main"
  /\ UNCHANGED <<args, options, fep_calls, changed_files, status, path_in_repo, rev,
                 worktree_content, edited_content, context_lines, edited_linenums,
                 result_str, iterations, failed_margins, yields, disk, verified,
                 yielded, some_files_changed, written, posted, linters_run, error,
                 retval>>

\* `format_edited_parts(paths, args.revision, args.isort, args.lint, black_args)`
CallArguments(paths, revision, enable_isort, linter_cmdlines, bargs) ==
  <<paths, revision, enable_isort, linter_cmdlines, bargs>>

\* main() calls format_edited_parts(); the generator starts on the first next().
\* `modified` are the sets of paths git may report as modified.
CallFormatEditedPartsOn(modified) ==
  /\ pc = "main"
  /\ UNCHANGED sideVars
  /\ some_files_changed' = FALSE
  /\ fep_calls' = Append(fep_calls, CallArguments(options.src, options.revision,
                                                  args.isort, args.lint, black_args))
  /\ \E cf \in modified :
       /\ changed_files' = cf
       /\ status' = [f \in Files |-> IF f \in cf THEN "pending" ELSE "absent"]
  /\ pc' = "for_file"
  /\ UNCHANGED <<args, options, black_args, path_in_repo, rev, worktree_content,
                 edited_content, context_lines, edited_linenums, result_str,
                 iterations, failed_margins, yields, disk, verified,
                 yielded, written, posted, linters_run, error, retval>>

CallFormatEditedParts == CallFormatEditedPartsOn(SUBSET Files)

\* The same call when git reports no modified file.
CallFormatEditedPartsNothingModified == CallFormatEditedPartsOn({{}})

Remaining == {f \in changed_files : f > path_in_repo}

\* Variant: the linters are started inside the loop over the files.
LintersMayStart_InLoop(remaining) == TRUE

\* `for linter_cmdline in linter_cmdlines` follows the loop over the changed
\* files: it starts when no file remains.
LintersMayStart(remaining) == remaining = {}

\* `for path_in_repo in sorted(changed_files)` up to the start of the retry loop
NextFile ==
  /\ pc = "for_file"
  /\ UNCHANGED sideVars
  /\ Remaining # {}
  /\ LET f == CHOOSE x \in Remaining : \A y \in Remaining : x <= y IN
       /\ path_in_repo' = f
       /\ \E w \in Contents, r \in {"same", "differs", "absent"} :
            /\ worktree_content' = w
            /\ rev' = r
            /\ IF args.isort
                 THEN \E e \in apply_isort(w) : edited_content' = e
                 ELSE edited_content' = w
  /\ context_lines' = 0
  /\ iterations' = 0
  /\ edited_linenums' = {}
  /\ result_str' = EmptyStr
  /\ verified' = NoVerify
  /\ failed_margins' = {}
  /\ pc' = "diff"
  /\ UNCHANGED <<args, options, black_args, fep_calls, yields, disk,
                 changed_files, status, yielded, some_files_changed,
                 written, posted, linters_run, error, retval>>

\* One iteration of the retry loop, steps 2 and 3, and the isort short-circuit.
RevisionVsLines ==
  /\ pc = "diff"
  /\ UNCHANGED sideVars
  /\ iterations' = iterations + 1
  /\ verified' = NoVerify
  /\ \/ /\ CollaboratorFailure("DiffError")
        /\ UNCHANGED edited_linenums
     \/ /\ \E nums \in revision_vs_lines(edited_lines, context_lines) :
             /\ edited_linenums' = nums
             /\ IF NoChangesAfterIsort(args.isort, nums, edited_content, worktree_content)
                  THEN /\ pc' = "for_file"
                       /\ status' = [status EXCEPT ![path_in_repo] = "unchanged"]
                  ELSE /\ pc' = "black"
                       /\ UNCHANGED status
        /\ UNCHANGED <<error, context_lines>>
  /\ UNCHANGED <<args, options, black_args, fep_calls, failed_margins, yields, disk,
                 changed_files, path_in_repo, rev, worktree_content,
                 edited_content, result_str, yielded,
                 some_files_changed, written, posted, linters_run, retval>>

\* Steps 4 to 8: Black, the diff, the chunks, the chosen lines, the result.
RunBlack ==
  /\ pc = "black"
  /\ UNCHANGED sideVars
  /\ \/ /\ CollaboratorFailure("FormatError")
        /\ UNCHANGED result_str
     \/ /\ \E chosen_lines \in UNION {ChosenLines(edited_lines, formatted, edited_linenums) :
                                          formatted \in run_black(edited_content)} :
             result_str' = joinlines(chosen_lines)
        /\ pc' = "verify"
        /\ UNCHANGED <<status, error, context_lines>>
  /\ UNCHANGED <<args, options, black_args, fep_calls, failed_margins, yields, disk,
                 changed_files, path_in_repo, rev, worktree_content,
                 edited_content, edited_linenums, iterations,
                 verified, yielded, some_files_changed, written, posted,
                 linters_run, retval>>

\* Steps 9 and 10: verify, then retry, give up, or yield and leave the loop.
VerifyAst ==
  /\ pc = "verify"
  /\ UNCHANGED sideVars
  /\ \E outcome \in VerifyOutcomes :
       LET raised == RaisesNotEquivalentError(outcome)
           branch == TryVerify(raised, context_lines, max_context_lines)
       IN
       /\ verified' = [called |-> TRUE, edited |-> edited_content,
                       result |-> result_str, margin |-> context_lines,
                       outcome |-> outcome, accepted |-> ~raised]
       /\ failed_margins' = IF raised THEN failed_margins \cup {context_lines}
                                      ELSE failed_margins
       /\ CASE branch = "raise" ->
                 /\ Raise("NotEquivalentError")
                 /\ status' = [status EXCEPT ![path_in_repo] = "failed"]
                 /\ UNCHANGED <<context_lines, yielded, result_str, yields>>
            [] branch = "continue" ->
                 \* `continue`: the next margin of the range, or the end of the
                 \* loop without a break when the range is exhausted
                 /\ context_lines' = NextMargin(context_lines)
                 /\ result_str' = EmptyStr   \* recomputed before it is read again
                 /\ IF NextMargin(context_lines) \in MarginRange(max_context_lines)
                      THEN /\ pc' = "diff"
                           /\ UNCHANGED status
                      ELSE /\ pc' = "for_file"
                           /\ status' = [status EXCEPT ![path_in_repo] = "exhausted"]
                 /\ UNCHANGED <<yielded, error, yields>>
            [] OTHER ->
                 /\ IF ShouldYield(result_str, worktree_content)
                      THEN /\ yielded' = [valid |-> TRUE, src |-> path_in_repo,
                                          old |-> worktree_content, new |-> result_str,
                                          new_lines |-> splitlines(result_str)]
                           /\ status' = [status EXCEPT ![path_in_repo] = "yielded"]
                           /\ yields' = [yields EXCEPT ![path_in_repo] = @ + 1]
                           /\ pc' = "main_body"
                      ELSE /\ status' = [status EXCEPT ![path_in_repo] = "unchanged"]
                           /\ pc' = "for_file"
                           /\ UNCHANGED <<yielded, yields>>
                 /\ UNCHANGED <<context_lines, error, result_str>>
  /\ UNCHANGED <<args, options, black_args, fep_calls, disk,
                 changed_files, path_in_repo, rev, worktree_content,
                 edited_content, edited_linenums, iterations,
                 some_files_changed, written, posted, linters_run, retval>>

\* Steps 11 to 14: one linter subprocess per command line, after the last file.
RunLinter ==
  /\ pc = "for_file"
  /\ UNCHANGED sideVars
  /\ LintersMayStart(Remaining)
  /\ Len(linters_run) < Len(args.lint)
  /\ linters_run' = Append(linters_run, args.lint[Len(linters_run) + 1])
  /\ UNCHANGED <<args, options, black_args, fep_calls, failed_margins, yields, disk,
                 pc, changed_files, status, path_in_repo, rev,
                 worktree_content, edited_content, context_lines, edited_linenums,
                 result_str, iterations, verified, yielded, some_files_changed,
                 written, posted, error, retval>>

\* ------------------------------------------------------------------ main

\* post_gh_suggestion: without the event data `data` is unbound where it is
\* first read; with it, any of the HTTP requests may fail.
PostGhSuggestionOutcomes(mock) == IF mock THEN {"raise"} ELSE {"ok", "raise"}

\* `if not args.check and not args.diff: modify_file(path, new_content)`
ShouldModifyFile(check, diff) == ~check /\ ~diff

\* Variant: the old content is written back.
ModifyFileContent_Old(old_content, new_content) == old_content

\* `modify_file(path, new_content)`: `path.write_text(new_content)`
ModifyFileContent(old_content, new_content) == new_content

\* Variant: the retry loop goes on after the yield.
AfterYield_NoBreak == "diff"

\* The generator resumes after its yield at the `break` of the retry loop.
AfterYield == "for_file"

\* The body of main()'s loop for one yielded item; then the generator resumes
\* at its `break`.
MainLoopBody ==
  /\ pc = "main_body"
  /\ UNCHANGED sideVars
  /\ some_files_changed' = TRUE
  /\ \E posting \in (IF args.diff
                       THEN UNION {PostGhSuggestionOutcomes(mock) : mock \in BOOLEAN}
                       ELSE {"skip"}) :
       IF posting = "raise"
         THEN /\ Raise("PostError")
              /\ UNCHANGED <<posted, written, disk, yielded>>
         ELSE /\ posted' = IF args.diff THEN posted \cup {yielded.src} ELSE posted
              /\ IF ShouldModifyFile(args.check, args.diff)
                   THEN /\ written' = written \cup {yielded.src}
                        /\ disk' = [disk EXCEPT ![yielded.src] =
                                      ModifyFileContent(yielded.old, yielded.new)]
                   ELSE UNCHANGED <<written, disk>>
              /\ yielded' = NoYield
              /\ pc' = AfterYield
              /\ UNCHANGED error
  /\ UNCHANGED <<args, options, black_args, fep_calls, failed_margins, yields,
                 changed_files, status, path_in_repo, rev,
                 worktree_content, edited_content, context_lines, edited_linenums,
                 result_str, iterations, verified, linters_run, retval>>

\* Variant: --check is not consulted.
ReturnValue_IgnoreCheck(check, changed) == IF changed THEN 1 ELSE 0

\* `return 1 if args.check and some_files_changed else 0`
ReturnValue(check, changed) == IF check /\ changed THEN 1 ELSE 0

\* The generator is exhausted: main() returns.
MainReturn ==
  /\ pc = "for_file"
  /\ UNCHANGED sideVars
  /\ Remaining = {}
  /\ Len(linters_run) = Len(args.lint)
  /\ retval' = ReturnValue(args.check, some_files_changed)
  /\ pc' = "done"
  /\ UNCHANGED <<args, options, black_args, fep_calls, failed_margins, yields, disk,
                 changed_files, status, path_in_repo, rev,
                 worktree_content, edited_content, context_lines, edited_linenums,
                 result_str, iterations, verified, yielded, some_files_changed,
                 written, posted, linters_run, error>>

Next ==
  \/ BuildBlackArgs
  \/ CallFormatEditedParts
  \/ NextFile
  \/ RevisionVsLines
  \/ RunBlack
  \/ VerifyAst
  \/ RunLinter
  \/ MainLoopBody
  \/ MainReturn

Spec == Init /\ [][Next]_vars

\* main() for every combination of the Black options, git reporting no
\* modified file.
InitOptions == MainInit(OptionValues) /\ SideIdle

NextOptions ==
  \/ BuildBlackArgs
  \/ CallFormatEditedPartsNothingModified
  \/ RunLinter
  \/ MainReturn

SpecOptions == InitOptions /\ [][NextOptions]_vars

\* ------------------------------------------- diff, chunks and choose_lines

\* main() has nothing to do while a part is modelled on its own.
MainIdle ==
  /\ MainInit({NoOptions})
  /\ args = [check |-> FALSE, diff |-> FALSE, isort |-> FALSE, lint |-> <<>>]

\* Steps 5 to 8 of format_edited_parts() for any edited lines, any Black
\* output and any edited line numbers.
InitChoose ==
  /\ MainIdle
  /\ PostIdle
  /\ c_pc = "diff"
  /\ c_edited \in DiffLines
  /\ c_formatted \in DiffLines
  /\ c_nums \in SUBSET (1..Len(c_edited))
  /\ c_chunks = <<>>
  /\ c_k = 0
  /\ c_added = <<>>
  /\ c_chosen = <<>>
  /\ c_result = EmptyStr

\* `opcodes = diff_and_get_opcodes(edited_lines, formatted)` and
\* `black_chunks = list(opcodes_to_chunks(opcodes, edited_lines, formatted))`
ChooseDiff ==
  /\ c_pc = "diff"
  /\ \E opcodes \in diff_and_get_opcodes(c_edited, c_formatted) :
       c_chunks' = BlackChunks(opcodes, c_edited, c_formatted)
  /\ c_pc' = "choose"
  /\ UNCHANGED <<c_edited, c_formatted, c_nums, c_k, c_added, c_chosen, c_result>>
  /\ UNCHANGED <<mainVars, postVars>>

\* `chosen_lines = list(choose_lines(black_chunks, edited_linenums))`, one
\* chunk at a time.
ChooseChunk ==
  /\ c_pc = "choose"
  /\ c_k < Len(c_chunks)
  /\ c_k' = c_k + 1
  /\ c_added' = ChunkChoice(c_chunks[c_k + 1], c_nums)
  /\ c_chosen' = c_chosen \o c_added'
  /\ UNCHANGED <<c_pc, c_edited, c_formatted, c_nums, c_chunks, c_result>>
  /\ UNCHANGED <<mainVars, postVars>>

\* `result_str = joinlines(chosen_lines)`
ChooseJoin ==
  /\ c_pc = "choose"
  /\ c_k = Len(c_chunks)
  /\ c_result' = joinlines(c_chosen)
  /\ c_pc' = "done"
  /\ UNCHANGED <<c_edited, c_formatted, c_nums, c_chunks, c_k, c_added, c_chosen>>
  /\ UNCHANGED <<mainVars, postVars>>

NextChoose ==
  \/ ChooseDiff
  \/ ChooseChunk
  \/ ChooseJoin

SpecChoose == InitChoose /\ [][NextChoose]_vars

\* ---------------------------------------------------- post_gh_suggestion

\* `should_remove = c_user == "github-actions[bot]" and (c_id == 41898282)
\*  and c_is_darker`
should_remove(comment) ==
  /\ comment.login = "github-actions[bot]"
  /\ comment.id = GithubActionsBotId
  /\ comment.marker

\* `requests.delete(comment["url"], headers=headers)` is not under a
\* condition: should_remove is only printed.
DeleteIsSent(comment) == TRUE

\* The body of the loop over the opcodes for one opcode: the (start, end) of
\* the change appended, if any.
ChangeOf(opcode) ==
  IF opcode.kind = "replace"
    THEN <<[action |-> "replace", start |-> opcode.i1 + 1, end |-> opcode.i2]>>
  ELSE IF opcode.kind = "insert"
    THEN <<[action |-> "insert", start |-> opcode.i1, end |-> opcode.i2]>>
  ELSE <<>>

\* `changes` after the loop over the opcodes.
RECURSIVE ChangesOf(_)
ChangesOf(opcodes) ==
  IF opcodes = <<>> THEN <<>>
  ELSE ChangeOf(Head(opcodes)) \o ChangesOf(Tail(opcodes))

\* `changes = changes[:15]`
Cut(changes) ==
  SubSeq(changes, 1, IF Len(changes) < MaxSuggestions THEN Len(changes) ELSE MaxSuggestions)

\* `"event": "REQUEST_CHANGES" if comments else "APPROVE"`
ReviewEvent(comments) == IF comments # <<>> THEN "REQUEST_CHANGES" ELSE "APPROVE"

\* post_gh_suggestion(path, old_content, new_lines) for any pull request,
\* any old content and any new lines.
InitPost ==
  /\ MainIdle
  /\ ChooseIdle
  /\ p_pc = "load"
  /\ p_mock = FALSE
  /\ p_server \in SUBSET Comments
  /\ p_data = {}
  /\ p_deleted = {}
  /\ p_old \in DiffLines
  /\ p_new \in DiffLines
  /\ p_opcodes = <<>>
  /\ p_changes = <<>>
  /\ p_review = NoReview
  /\ p_requests = {}
  /\ p_error = "none"

\* The `try` around the loading of the event data: mock is True when
\* anything in it raises.
PostLoadEvent ==
  /\ p_pc = "load"
  /\ p_mock' \in BOOLEAN
  /\ p_pc' = "get"
  /\ UNCHANGED <<p_server, p_data, p_deleted, p_old, p_new, p_opcodes, p_changes,
                 p_review, p_requests, p_error>>
  /\ UNCHANGED <<mainVars, chooseVars>>

\* `if not mock: data = requests.get(...).json()` and
\* `print(f"Found {len(data)} comments")`, which reads data bound or not.
PostGetComments ==
  /\ p_pc = "get"
  /\ IF p_mock
       THEN /\ p_error' = "UnboundLocalError"
            /\ p_pc' = "raised"
            /\ UNCHANGED <<p_data, p_requests>>
       ELSE /\ p_data' = p_server
            /\ p_requests' = p_requests \cup {"GET"}
            /\ p_pc' = "delete"
            /\ UNCHANGED p_error
  /\ UNCHANGED <<p_mock, p_server, p_deleted, p_old, p_new, p_opcodes, p_changes,
                 p_review>>
  /\ UNCHANGED <<mainVars, chooseVars>>

\* One round of `for comment in data`.
PostDeleteComment ==
  /\ p_pc = "delete"
  /\ \E comment \in p_data :
       /\ p_data' = p_data \ {comment}
       /\ IF DeleteIsSent(comment)
            THEN /\ p_deleted' = p_deleted \cup {comment}
                 /\ p_requests' = p_requests \cup {"DELETE"}
            ELSE UNCHANGED <<p_deleted, p_requests>>
  /\ UNCHANGED <<p_pc, p_mock, p_server, p_old, p_new, p_opcodes, p_changes,
                 p_review, p_error>>
  /\ UNCHANGED <<mainVars, chooseVars>>

\* The loop over the opcodes of the diff, and the cut to 15 changes.
PostBuildChanges ==
  /\ p_pc = "delete"
  /\ p_data = {}
  /\ \E opcodes \in diff_and_get_opcodes(p_old, p_new) :
       /\ p_opcodes' = opcodes
       /\ p_changes' = Cut(ChangesOf(opcodes))
  /\ p_pc' = "post"
  /\ UNCHANGED <<p_mock, p_server, p_data, p_deleted, p_old, p_new, p_review,
                 p_requests, p_error>>
  /\ UNCHANGED <<mainVars, chooseVars>>

\* suggests() and post(): one comment per change, the review event, and the
\* POST request unless mock; `res.raise_for_status()` may raise.
PostReview ==
  /\ p_pc = "post"
  /\ p_review' = [built |-> TRUE, event |-> ReviewEvent(p_changes), comments |-> p_changes]
  /\ IF p_mock
       THEN /\ p_pc' = "done"
            /\ UNCHANGED <<p_requests, p_error>>
       ELSE /\ p_requests' = p_requests \cup {"POST"}
            /\ \/ p_pc' = "done" /\ UNCHANGED p_error
               \/ p_pc' = "raised" /\ p_error' = "HTTPError"
  /\ UNCHANGED <<p_mock, p_server, p_data, p_deleted, p_old, p_new, p_opcodes,
                 p_changes>>
  /\ UNCHANGED <<mainVars, chooseVars>>

NextPost ==
  \/ PostLoadEvent
  \/ PostGetComments
  \/ PostDeleteComment
  \/ PostBuildChanges
  \/ PostReview

SpecPost == InitPost /\ [][NextPost]_vars

\* ------------------------------------------------------------- properties

Yielded(f) == status[f] = "yielded"
LaterFiles(f) == {g \in changed_files : g > f}
EarlierFiles(f) == {g \in changed_files : g < f}
InFile == path_in_repo # 0

\* The call of verify_ast_unchanged of this iteration raised NotEquivalentError.
VerificationFailed == verified.called /\ ~verified.accepted

\* C1: an item is yielded only if verify_ast_unchanged accepted exactly that
\* result against the edited content in the same iteration.
C1_YieldOnlyVerified ==
  yielded.valid =>
    /\ verified.called
    /\ verified.accepted
    /\ verified.result = yielded.new
    /\ verified.edited = edited_content
    /\ verified.margin = context_lines
    /\ yielded.src = path_in_repo

\* C1 witness: a result is yielded after an earlier margin failed verification.
C1_Witness ==
  pc = "main_body" /\ yielded.valid /\ context_lines > 0

\* C2: the retry loop runs at most max_margin + 1 iterations for a file and is
\* left only with a result, with no change, or by an exception.
C2_RetryLoopHalts ==
  /\ iterations <= max_context_lines + 1
  /\ \A f \in Files : status[f] \in {"absent", "pending", "unchanged", "yielded", "failed"}
  /\ (InFile /\ pc \in {"for_file", "main_body", "done"}) =>
       status[path_in_repo] \in {"unchanged", "yielded"}
  /\ (InFile /\ pc = "aborted") => status[path_in_repo] \in {"failed", "yielded"}

\* C2 witness: a file of two lines or more used every margin and then failed.
C2_Witness ==
  /\ pc = "aborted"
  /\ error = "NotEquivalentError"
  /\ max_context_lines >= 2
  /\ iterations = max_context_lines + 1

\* C3: a verification failure at the maximum margin, and only there, ends the
\* run with the verification error; nothing is yielded for the file, no later
\* file is reconciled or written, and no linter runs.
C3_FatalAtMaxMargin ==
  /\ (VerificationFailed /\ verified.margin = max_context_lines) =>
       (pc = "aborted" /\ error = "NotEquivalentError")
  /\ error = "NotEquivalentError" =>
       /\ pc = "aborted"
       /\ VerificationFailed
       /\ verified.margin = max_context_lines
       /\ context_lines = max_context_lines
       /\ status[path_in_repo] = "failed"
       /\ ~yielded.valid
       /\ path_in_repo \notin written \cup posted
       /\ \A g \in LaterFiles(path_in_repo) :
            status[g] = "pending" /\ g \notin written \cup posted
       /\ linters_run = <<>>
       /\ retval = -1

\* C3 witness: the first of two files fails at its maximum margin.
C3_Witness ==
  /\ error = "NotEquivalentError"
  /\ LaterFiles(path_in_repo) # {}
  /\ max_context_lines >= 1

\* C4 as claimed: after the failure of one file the remaining files of the
\* batch are still reconciled.
C4_FailuresFileScoped ==
  \A f \in Files :
    (status[f] = "failed" /\ pc = "aborted") =>
      \A g \in LaterFiles(f) : status[g] # "pending"

\* C4 amended: any failure of a file (verification exhausted, or a collaborator
\* error) ends the whole run: the files after it stay unreconciled, the files
\* before it keep their outcome, no linter runs and main() does not return.
C4_FailureAbortsBatch ==
  \A f \in Files :
    status[f] = "failed" =>
      /\ pc = "aborted"
      /\ error \in {"NotEquivalentError", "DiffError", "FormatError"}
      /\ f = path_in_repo
      /\ \A g \in LaterFiles(f) : status[g] = "pending" /\ g \notin written \cup posted
      /\ \A g \in EarlierFiles(f) : status[g] \in {"unchanged", "yielded"}
      /\ linters_run = <<>>
      /\ retval = -1

\* C4 witness: Black fails on the first file while a second file is waiting.
C4_Witness ==
  /\ error = "FormatError"
  /\ status[path_in_repo] = "failed"
  /\ \E g \in LaterFiles(path_in_repo) : status[g] = "pending"

\* C5: every file starts at margin 0; the margin changes only after a failed
\* verification at a margin below the maximum, and then to exactly one more;
\* it never exceeds the maximum.
C5_MarginSteps ==
  /\ context_lines = 0
  /\ [][ /\ context_lines' <= max_context_lines'
         /\ (path_in_repo' # path_in_repo) => context_lines' = 0
         /\ (path_in_repo' = path_in_repo) =>
              \/ context_lines' = context_lines
              \/ /\ context_lines' = context_lines + 1
                 /\ pc = "verify"
                 /\ VerificationFailed'
                 /\ verified'.margin = context_lines
         /\ (pc = "verify" /\ VerificationFailed' /\ context_lines < max_context_lines) =>
              (context_lines' = context_lines + 1 /\ pc' = "diff" /\ error' = "none")
       ]_vars

\* C5 witness: the second file starts over at margin 0 and reaches margin 2.
C5_Witness ==
  /\ pc = "diff"
  /\ context_lines = 2
  /\ EarlierFiles(path_in_repo) # {}

\* C6: a failure of revision_vs_lines or run_black ends the run at the margin
\* where it happens: no verification in that iteration, no further iteration.
C6_CollaboratorFailureImmediate ==
  error \in {"DiffError", "FormatError"} =>
    /\ pc = "aborted"
    /\ status[path_in_repo] = "failed"
    /\ iterations = context_lines + 1
    /\ ~verified.called
    /\ ~yielded.valid
    /\ retval = -1

\* C6 witness: the revision diff fails at margin 1, after one retry.
C6_Witness ==
  error = "DiffError" /\ context_lines = 1 /\ iterations = 2

\* C7: a parse error during verification is handled as a mismatch is: a retry
\* at the next margin below the maximum, the fatal failure at the maximum.
C7_ParseErrorLikeMismatch ==
  (verified.called /\ verified.outcome \in {"parse_error", "mismatch"}) =>
    IF verified.margin < max_context_lines
      THEN pc = "diff" /\ context_lines = verified.margin + 1 /\ error = "none"
      ELSE pc = "aborted" /\ error = "NotEquivalentError"

\* C7 witness: a parse error at margin 0 is followed by a retry at margin 1.
C7_Witness ==
  /\ verified.outcome = "parse_error"
  /\ verified.margin = 0
  /\ pc = "diff"
  /\ context_lines = 1

\* C8 as claimed: after a successful verification the file is reported
\* unchanged exactly when the result equals the content given to Black.
C8_NoChangeIffEqualsEdited ==
  (verified.called /\ verified.accepted) =>
    (status[path_in_repo] = "unchanged" <=> verified.result = edited_content)

\* C8 amended: after a successful verification the file is reported unchanged
\* exactly when the result equals the worktree content as read from the file,
\* before import sorting; otherwise that result is yielded.
C8_NoChangeIffEqualsWorktree ==
  (verified.called /\ verified.accepted) =>
    /\ status[path_in_repo] \in {"unchanged", "yielded"}
    /\ status[path_in_repo] = "unchanged" <=> verified.result = worktree_content
    /\ status[path_in_repo] = "yielded" <=> verified.result # worktree_content
    /\ pc = "main_body" =>
         /\ yielded.valid
         /\ yielded.src = path_in_repo
         /\ yielded.new = verified.result
         /\ yielded.old = worktree_content

\* C8 witness: isort changed the content, Black's result equals the sorted
\* content, and the file is yielded.
C8_Witness ==
  /\ pc = "main_body"
  /\ verified.accepted
  /\ verified.result = edited_content
  /\ edited_content # worktree_content

\* C9 as claimed: for a file identical to the revision's copy, with no edited
\* lines at margin 0, neither Black nor the verification is run.
C9_UnchangedFileShortCircuits ==
  (InFile /\ rev = "same" /\ edited_linenums = {} /\ context_lines = 0 /\ iterations = 1) =>
    pc \notin {"black", "verify"}

\* C9 amended: with --isort, when isort left the content as it was and no line
\* is edited at margin 0, the file is reported unchanged in the first
\* iteration, and Black, the merge and the verification are not run.
C9_IsortShortCircuit ==
  (InFile /\ args.isort /\ edited_content = worktree_content /\ edited_linenums = {}
     /\ iterations >= 1 /\ error = "none") =>
    /\ iterations = 1
    /\ context_lines = 0
    /\ status[path_in_repo] = "unchanged"
    /\ pc \in {"for_file", "done"}
    /\ ~verified.called
    /\ result_str = EmptyStr
    /\ ~yielded.valid

\* C9 witness: a non-empty file identical to the revision's copy is reported
\* unchanged after one iteration with --isort.
C9_Witness ==
  /\ args.isort
  /\ rev = "same"
  /\ worktree_content # EmptyStr
  /\ edited_content = worktree_content
  /\ iterations = 1
  /\ pc = "for_file"
  /\ status[path_in_repo] = "unchanged"
  /\ ~verified.called

\* C10: main() returns 1 exactly when --check was given and at least one file
\* was yielded, and 0 in every other case.
C10_ReturnValue ==
  /\ pc = "done" =>
       retval = (IF args.check /\ (\E f \in Files : Yielded(f)) THEN 1 ELSE 0)
  /\ pc # "done" => retval = -1

\* C10 witness: main() returns 1.
C10_Witness ==
  pc = "done" /\ retval = 1 /\ args.check

\* C11: main() calls format_edited_parts exactly once, with the arguments
\* (source paths, isort flag, Black argument mapping, revision); the mapping
\* has a key only for the Black options given; without --check main() returns 0.
C11_CallArguments ==
  /\ pc \notin {"args", "main"} =>
       /\ Len(fep_calls) = 1
       /\ Len(fep_calls[1]) = 4
       /\ fep_calls[1][1] = options.src
       /\ fep_calls[1][2] = args.isort
       /\ fep_calls[1][3] = black_args
       /\ fep_calls[1][4] = options.revision
       /\ \A key \in DOMAIN black_args : options[key].given
  /\ (pc = "done" /\ ~args.check) => retval = 0

\* C12: the result emitted for a file is the one of the smallest margin at
\* which verification succeeds: every margin below it was tried and failed,
\* and no further iteration follows the success.
C12_SmallestVerifiedMargin ==
  (verified.called /\ verified.accepted) =>
    /\ failed_margins = 0..(verified.margin - 1)
    /\ context_lines = verified.margin
    /\ iterations = verified.margin + 1
    /\ yielded.valid => (yielded.new = verified.result /\ yielded.src = path_in_repo)

\* C12 witness: margins 0 and 1 failed and the result of margin 2 is emitted.
C12_Witness ==
  /\ verified.accepted
  /\ verified.margin = 2
  /\ failed_margins = {0, 1}
  /\ yielded.valid

\* C13: at most one item is yielded for a file over all its iterations, and
\* the margin of the item yielded is none of the margins that failed.
C13_AtMostOneYieldPerFile ==
  /\ \A f \in Files :
       /\ yields[f] <= 1
       /\ yields[f] = 1 <=> status[f] = "yielded"
  /\ yielded.valid => context_lines \notin failed_margins

\* C13 witness: a file whose first margin failed has been yielded once and
\* main()'s loop body has run for it.
C13_Witness ==
  /\ InFile
  /\ pc = "for_file"
  /\ yields[path_in_repo] = 1
  /\ failed_margins # {}

\* C15: a linter runs only after every changed file has been reconciled and,
\* when main writes files, every yielded file has been written back; the
\* linter command lines run in order, and each has run exactly once when
\* main returns.
C15_LintersAfterWriteBack ==
  /\ linters_run # <<>> =>
       /\ \A f \in changed_files : status[f] \in {"unchanged", "yielded"}
       /\ pc \in {"for_file", "done"}
       /\ ~yielded.valid
       /\ ShouldModifyFile(args.check, args.diff) =>
            \A f \in Files : Yielded(f) => f \in written
  /\ Len(linters_run) <= Len(args.lint)
  /\ linters_run = SubSeq(args.lint, 1, Len(linters_run))
  /\ pc = "done" => linters_run = args.lint

\* C15 witness: main has returned after two files were written back and two
\* linters were run.
C15_Witness ==
  /\ pc = "done"
  /\ written = Files
  /\ Len(linters_run) = 2
  /\ linters_run[1] # linters_run[2]

\* C16: main writes files only when neither --check nor --diff was given; it
\* writes exactly the yielded files, each with its yielded new content, and
\* with --check or --diff the worktree stays as it was.
C16_WritesOnlyYielded ==
  /\ written # {} => (~args.check /\ ~args.diff)
  /\ (args.check \/ args.diff) => disk = [f \in Files |-> EmptyStr]
  /\ \A f \in Files :
       /\ f \in written => Yielded(f)
       /\ f \notin written => disk[f] = EmptyStr
       /\ (~args.check /\ ~args.diff /\ Yielded(f)
             /\ ~(pc = "main_body" /\ f = path_in_repo)) => f \in written
  /\ (InFile /\ path_in_repo \in written) =>
       /\ verified.accepted
       /\ disk[path_in_repo] = verified.result
       /\ disk[path_in_repo] # worktree_content

\* C16 witness: of two changed files the first needed no change and the
\* second has been written with its new content.
C16_Witness ==
  /\ InFile
  /\ path_in_repo \in written
  /\ disk[path_in_repo] = verified.result
  /\ verified.result # EmptyStr
  /\ \E f \in EarlierFiles(path_in_repo) : status[f] = "unchanged" /\ f \notin written

\* The chunk chosen last, and its two sides in the lines that were diffed.
ChunkChosen == c_pc \in {"choose", "done"} /\ c_k >= 1
LastChunk == c_chunks[c_k]
LastOriginalSlice == SubSeq(c_edited, LastChunk.i1 + 1, LastChunk.i2)
LastFormattedSlice == SubSeq(c_formatted, LastChunk.j1 + 1, LastChunk.j2)
LastOriginalRange == (LastChunk.i1 + 1)..LastChunk.i2

\* C14 as stated: a chunk that is not equal and whose original range holds no
\* edited line contributes its original slice and not its reformatted one,
\* pure insertions (empty original range) included.
C14_UntouchedRangeKeepsOriginal ==
  (ChunkChosen /\ LastChunk.kind # "equal" /\ LastOriginalRange \cap c_nums = {}) =>
    /\ c_added = LastOriginalSlice
    /\ c_added # LastFormattedSlice

\* C14 amended: a chunk that is not equal and whose original range holds no
\* edited line, and which for a pure insertion is not inserted at an edited
\* line, contributes its original slice and not its reformatted one.
C14_UntouchedChunkKeepsOriginal ==
  (/\ ChunkChosen
   /\ LastChunk.kind # "equal"
   /\ LastOriginalRange \cap c_nums = {}
   /\ LastChunk.i1 = LastChunk.i2 => (LastChunk.i1 + 1) \notin c_nums) =>
    /\ c_added = LastOriginalSlice
    /\ c_added # LastFormattedSlice
    /\ c_chosen = choose_lines(SubSeq(c_chunks, 1, c_k), c_nums)

\* C14 witness: with some lines edited, a pure insertion away from them has
\* been dropped, and the merged result is complete.
C14_Witness ==
  /\ ChunkChosen
  /\ c_pc = "done"
  /\ LastChunk.kind = "insert"
  /\ c_nums # {}
  /\ (LastChunk.i1 + 1) \notin c_nums
  /\ LastFormattedSlice # <<>>
  /\ c_added = <<>>

\* C17: a DELETE request is sent only for a comment written by
\* github-actions[bot] (user id 41898282) whose body carries the marker; every
\* other comment is left in place.
C17_DeletesOnlyOwnComments ==
  \A comment \in p_deleted : should_remove(comment)

\* C18: the review event is APPROVE only when the new lines equal the old
\* ones; with any opcode that is not equal it is REQUEST_CHANGES.
C18_ApproveOnlyWhenEqual ==
  p_review.built =>
    /\ p_review.event = "APPROVE" => p_new = p_old
    /\ (\E k \in 1..Len(p_opcodes) : p_opcodes[k].kind # "equal") =>
         p_review.event = "REQUEST_CHANGES"

\* C19: every suggestion targets lines start..end of the old content with
\* 1 <= start <= end <= the number of old lines, for replace and for insert
\* opcodes, insertions at the top of the file included.
C19_ValidLineRange ==
  \A k \in 1..Len(p_changes) :
    /\ 1 <= p_changes[k].start
    /\ p_changes[k].start <= p_changes[k].end
    /\ p_changes[k].end <= Len(p_old)

\* C20: in mock mode (the event data could not be loaded) post_gh_suggestion
\* raises nothing and sends no HTTP request.
C20_MockRunsWithoutRequests ==
  p_mock => (p_error = "none" /\ p_pc # "raised" /\ p_requests = {})

TypeOK ==
  /\ pc \in {"args", "main", "for_file", "diff", "black", "verify", "main_body", "done", "aborted"}
  /\ worktree_content \in Contents
  /\ edited_content \in Contents
  /\ splitlines(result_str) \in LinesOver(LineTexts, 2 * MaxLines)
  /\ context_lines \in 0..(MaxLines + 1)
  /\ retval \in {-1, 0, 1}
====
